---- MODULE Spec2Model ----
(***************************************************************************)
(* AccessViz.py: a toolbox of four functions that communicate through      *)
(* files.  filefinder turns YKR_ID values into travel-time file paths,     *)
(* tablejoiner joins each file with the YKR grid and writes one layer per  *)
(* path, compare and visualiser read a written layer back.                 *)
(*                                                                         *)
(* Strings whose characters matter (file names, layer names) are sequences *)
(* of one-character strings.  A data frame is a record [cols, rows]: the   *)
(* set of its column names and the sequence of its rows, each row a record *)
(* over those columns.                                                     *)
(***************************************************************************)
EXTENDS Integers, Sequences, FiniteSets, TLC

VARIABLES
    pc,         \* how far the pipeline has come: start, resolved, joined, done, aborted
    grid,       \* MetropAccess_YKR_grid_EurefFIN.shp: the rows (YKR_ID, geometry)
    gridLoads,  \* number of gpd.read_file calls on the grid so far
    req,        \* arguments of the filefinder call
    ret,        \* value filefinder returned
    raised,     \* exception that ended the last call, NoError if it returned
    stdout,     \* lines printed so far
    manifest,   \* file_paths.txt, None while not written
    fmt,        \* output_format of the tablejoiner call
    tables,     \* content of every travel-time file tablejoiner was pointed at
    shpFiles,   \* Shapefiles in output_folder, by name
    gpkg,       \* layers of TravelMatrix.gpkg, by name
    writes,     \* the to_file calls of tablejoiner, in order
    creq,       \* arguments of the compare or visualiser call
    selection,  \* the local data frame `selection` when that call ended
    cmpOut,     \* the Acessibility_* file compare wrote, None while not written
    mapOut      \* the map visualiser saved, None while not saved

vars == <<pc, grid, gridLoads, req, ret, raised, stdout, manifest, fmt,
          tables, shpFiles, gpkg, writes, creq, selection, cmpOut, mapOut>>

(* ------------------------------ bounds -------------------------------- *)

\* Longest identifier list handed to filefinder.
MaxIds == 2

\* The YKR_ID values the inputs and the grid are drawn from: a short one, a
\* seven-digit one as in the Helsinki grid, and an eight-digit one.
IdUniverse == {300, 5797076, 15797076}

\* The "no value" mark of the travel-time tables.
NoData == -1

(* --------------------------- program constants ------------------------ *)

\* str(ID)[0:4]
PrefixLen == 4
\* Path(path).stem[-7:]
SuffixLen == 7

None == [kind |-> "None", value |-> <<>>]
PyList(s) == [kind |-> "list", value |-> s]

NoError == [fn |-> "", exc |-> ""]
Raise(f, e) == [fn |-> f, exc |-> e]

Range(s) == {s[i] : i \in 1..Len(s)}

(* ------------------------------ strings ------------------------------- *)

DigitChars == <<"0", "1", "2", "3", "4", "5", "6", "7", "8", "9">>

RECURSIVE Str(_)
\* str(ID) of a non-negative integer: its decimal digits.
Str(n) == IF n < 10 THEN <<DigitChars[n + 1]>>
          ELSE Str(n \div 10) \o <<DigitChars[(n % 10) + 1]>>

\* s[0:k]
Head_k(s, k) == SubSeq(s, 1, IF Len(s) < k THEN Len(s) ELSE k)

\* s[-k:]
Tail_k(s, k) == SubSeq(s, IF Len(s) < k THEN 1 ELSE Len(s) - k + 1, Len(s))

\* "travel_times_to_ {}.txt".format(ID)
FileName(ID) ==
    <<"t","r","a","v","e","l","_","t","i","m","e","s","_","t","o","_"," ">>
      \o Str(ID) \o <<".","t","x","t">>

\* Path(folder_path, str(ID)[0:4] + "xxx", "travel_times_to_ {}.txt".format(ID))
FilePath(folder_path, ID) ==
    [folder |-> folder_path,
     dir    |-> Head_k(Str(ID), PrefixLen) \o <<"x","x","x">>,
     name   |-> FileName(ID)]

\* Position of the last "." of a file name after its first character, 0 if none.
LastDot(name) ==
    LET dots == {i \in 2..Len(name) : name[i] = "."}
    IN  IF dots = {} THEN 0 ELSE CHOOSE i \in dots : \A j \in dots : j <= i

\* Path(path).stem: the file name without its last suffix.
Stem(path) ==
    IF LastDot(path.name) = 0 THEN path.name
    ELSE SubSeq(path.name, 1, LastDot(path.name) - 1)

LayerName_Prefix(path) == Head_k(Stem(path), SuffixLen)
\* Path(path).stem[-7:], the name of the Shapefile or of the Geopackage layer.
LayerName(path) == Tail_k(Stem(path), SuffixLen)

(* ------------------------------ the grid ------------------------------ *)

Geometry(id) == <<"POLYGON", id>>

GridCols == {"YKR_ID", "geometry"}

RECURSIVE Ascending(_)
Ascending(S) ==
    IF S = {} THEN <<>>
    ELSE LET m == CHOOSE x \in S : \A y \in S : x <= y
         IN  <<m>> \o Ascending(S \ {m})

GridOf(S) ==
    LET ids == Ascending(S)
    IN  [i \in 1..Len(ids) |-> [YKR_ID |-> ids[i], geometry |-> Geometry(ids[i])]]

\* The grids the Shapefile may hold: YKR_ID is unique in it.
Catalogs == {GridOf(S) : S \in SUBSET IdUniverse}

\* gpd.read_file(ykr_grid_file_path)
ReadGrid == [cols |-> GridCols, rows |-> grid]

\* file["YKR_ID"].tolist()
ColumnList(frame, col) == [i \in 1..Len(frame.rows) |-> frame.rows[i][col]]

(* ----------------------------- filefinder ----------------------------- *)

FolderPaths == {"data"}
Outputs == {"list", "text", "csv"}

RECURSIVE IdLists(_)
IdLists(n) ==
    IF n = 0 THEN {<<>>}
    ELSE IdLists(n - 1) \cup
         {Append(s, x) : s \in {t \in IdLists(n - 1) : Len(t) = n - 1}, x \in IdUniverse}

RECURSIVE FinderLoop_Break(_, _, _, _, _)
FinderLoop_Break(ids, IDs, folder_path, count, st) ==
    IF count = Len(ids) THEN st
    ELSE LET ID == ids[count + 1]
         IN  IF ID \in Range(IDs)
             THEN FinderLoop_Break(ids, IDs, folder_path, count + 1,
                    [paths |-> Append(st.paths, FilePath(folder_path, ID)),
                     out   |-> Append(st.out, <<"Processing", ID, count + 1, Len(ids)>>)])
             ELSE [paths |-> st.paths, out |-> Append(st.out, <<"Missing", ID>>)]

RECURSIVE FinderLoop(_, _, _, _, _)
\* for ID in YKR_ID_Values_as_list: the paths built and the lines printed.
FinderLoop(ids, IDs, folder_path, count, st) ==
    IF count = Len(ids) THEN st
    ELSE LET ID == ids[count + 1]
         IN  IF ID \in Range(IDs)
             THEN FinderLoop(ids, IDs, folder_path, count + 1,
                    [paths |-> Append(st.paths, FilePath(folder_path, ID)),
                     out   |-> Append(st.out, <<"Processing", ID, count + 1, Len(ids)>>)])
             ELSE FinderLoop(ids, IDs, folder_path, count + 1,
                    [paths |-> st.paths,
                     out   |-> Append(st.out, <<"Missing", ID>>)])

FinderAssert_Off(ids) == TRUE
\* assert len(YKR_ID_Values_as_list) > 0
FinderAssert(ids) == Len(ids) > 0

filefinder(YKR_ID_Values_as_list, folder_path, output) ==
    /\ pc = "start"
    /\ req' = [ids |-> YKR_ID_Values_as_list, folder_path |-> folder_path,
               output |-> output]
    /\ IF ~FinderAssert(YKR_ID_Values_as_list)
       THEN /\ raised' = Raise("filefinder", "AssertionError")
            /\ pc' = "aborted"
            /\ UNCHANGED <<gridLoads, ret, stdout, manifest>>
       ELSE LET IDs == ColumnList(ReadGrid, "YKR_ID")
                st  == FinderLoop(YKR_ID_Values_as_list, IDs, folder_path, 0,
                                  [paths |-> <<>>, out |-> <<>>])
            IN  /\ gridLoads' = gridLoads + 1
                /\ stdout' = stdout \o st.out
                /\ ret' = IF output = "list" THEN PyList(st.paths) ELSE None
                /\ manifest' = IF output = "text" THEN PyList(st.paths) ELSE manifest
                /\ raised' = NoError
                /\ pc' = "resolved"
    /\ UNCHANGED <<grid, fmt, tables, shpFiles, gpkg, writes, creq, selection,
                   cmpOut, mapOut>>

Filefinder ==
    \E ids \in IdLists(MaxIds), folder_path \in FolderPaths, output \in Outputs :
        filefinder(ids, folder_path, output)

(* ----------------------------- tablejoiner ---------------------------- *)

TableCols == {"from_id", "to_id", "walk_t", "pt_m_t"}

Row(f, w, p) == [from_id |-> f, to_id |-> 5797076, walk_t |-> w, pt_m_t |-> p]

\* Two travel-time tables; 5797077 is a cell of no grid.
TableA == <<Row(5797076, 15, 25), Row(300, 15, NoData), Row(5797077, 0, 0),
            Row(15797076, 25, 15)>>
TableB == <<Row(15797076, NoData, 25), Row(5797076, NoData, NoData),
            Row(5797077, 0, 15)>>

\* What a travel-time file may hold: nothing (no such file), text that
\* pd.read_csv cannot parse, or a table.
Contents == {[kind |-> "missing", rows |-> <<>>],
             [kind |-> "malformed", rows |-> <<>>],
             [kind |-> "table", rows |-> TableA],
             [kind |-> "table", rows |-> TableB]}

Formats == {"shp", "gpk", "gpkg"}

\* data.rename(columns={old: new})
Rename(frame, old, new) ==
    IF old \notin frame.cols THEN frame
    ELSE LET cols == (frame.cols \ {old}) \cup {new}
         IN  [cols |-> cols,
              rows |-> [i \in 1..Len(frame.rows) |->
                         [c \in cols |-> IF c = new THEN frame.rows[i][old]
                                         ELSE frame.rows[i][c]]]]

\* One merged row: the columns of the left row, then those of the right one.
MergedRow(l, r, cols) == [c \in cols |-> IF c \in DOMAIN l THEN l[c] ELSE r[c]]

RECURSIVE MergeRows(_, _, _, _)
\* The rows of an inner join, in the order of the left frame's keys.
MergeRows(left, right, on, i) ==
    IF i > Len(left.rows) THEN <<>>
    ELSE LET l    == left.rows[i]
             hits == SelectSeq(right.rows, LAMBDA r : r[on] = l[on])
         IN  [k \in 1..Len(hits) |-> MergedRow(l, hits[k], left.cols \cup right.cols)]
               \o MergeRows(left, right, on, i + 1)

Merge_Outer(left, right, on) ==
    [cols |-> left.cols \cup right.cols,
     rows |-> [i \in 1..Len(left.rows) |->
                LET l    == left.rows[i]
                    hits == SelectSeq(right.rows, LAMBDA r : r[on] = l[on])
                IN  IF hits = <<>>
                    THEN [c \in left.cols \cup right.cols |->
                            IF c \in DOMAIN l THEN l[c] ELSE NoData]
                    ELSE MergedRow(l, hits[1], left.cols \cup right.cols)]]

\* left.merge(right, on=on): pandas' default, the inner join.
Merge(left, right, on) ==
    [cols |-> left.cols \cup right.cols, rows |-> MergeRows(left, right, on, 1)]

\* The state of one tablejoiner call as its loop starts.
JoinStart == [loads |-> gridLoads, shp |-> shpFiles, gpk |-> gpkg,
              writes |-> writes, exc |-> ""]

\* f with the value v at x, whether or not x was in its domain.
Put(f, x, v) == [y \in DOMAIN f \cup {x} |-> IF y = x THEN v ELSE f[y]]

\* One pass of the loop body for `path`, whose file holds `content`.
JoinOne(st, path, content, output_format) ==
    LET data_grid == ReadGrid
        loaded    == [st EXCEPT !.loads = @ + 1]
    IN  IF content.kind = "missing"
        THEN [loaded EXCEPT !.exc = "FileNotFoundError"]
        ELSE IF content.kind = "malformed"
        THEN [loaded EXCEPT !.exc = "ParserError"]
        ELSE LET data   == Rename([cols |-> TableCols, rows |-> content.rows],
                                  "from_id", "YKR_ID")
                 joined == Merge(data_grid, data, "YKR_ID")
                 name   == LayerName(path)
                 w      == [store |-> output_format, name |-> name, path |-> path]
             IN  IF output_format = "shp"
                 THEN [loaded EXCEPT !.shp = Put(@, name, joined),
                                     !.writes = Append(@, w)]
                 ELSE IF output_format = "gpk"
                 THEN [loaded EXCEPT !.gpk = Put(@, name, joined),
                                     !.writes = Append(@, w)]
                 ELSE loaded

RECURSIVE JoinLoop(_, _, _, _, _)
\* for path in list: an exception ends the loop and the call.
JoinLoop(list, fs, output_format, i, st) ==
    IF i > Len(list) \/ st.exc # "" THEN st
    ELSE JoinLoop(list, fs, output_format, i + 1,
                  JoinOne(st, list[i], fs[list[i]], output_format))

tablejoiner(output_folder, output_format, list, fs) ==
    /\ pc = "resolved"
    /\ fmt' = output_format
    /\ tables' = fs
    /\ IF ~(Len(list) > 0)
       THEN /\ raised' = Raise("tablejoiner", "AssertionError")
            /\ pc' = "aborted"
            /\ UNCHANGED <<gridLoads, shpFiles, gpkg, writes>>
       ELSE LET st == JoinLoop(list, fs, output_format, 1, JoinStart)
            IN  /\ gridLoads' = st.loads
                /\ shpFiles' = st.shp
                /\ gpkg' = st.gpk
                /\ writes' = st.writes
                /\ raised' = IF st.exc = "" THEN NoError
                             ELSE Raise("tablejoiner", st.exc)
                /\ pc' = IF st.exc = "" THEN "joined" ELSE "aborted"
    /\ UNCHANGED <<grid, req, ret, stdout, manifest, creq, selection, cmpOut, mapOut>>

\* The list handed over is the one filefinder returned; the files it names
\* hold any of Contents.
Tablejoiner ==
    /\ ret.kind = "list"
    /\ \E output_format \in Formats, fs \in [Range(ret.value) -> Contents] :
           tablejoiner("out", output_format, ret.value, fs)

(* ----------------------- reading a layer back -------------------------- *)

Files == {"shp", "gpkg", "csv"}
ModeInputs == {"walk_t", "pt_m_t", "to_id", "car_x"}
Maps == {"static", "interactive", "pdf"}

\* The names a layer of this model can have.
LayerNames == {LayerName(FilePath(f, id)) : f \in FolderPaths, id \in IdUniverse}

\* if file == 'shp': gpd.read_file(path) / elif file == 'gpkg':
\* gpd.read_file(path, layer=YKR_ID).  The Shapefile read is the one
\* tablejoiner wrote under the name YKR_ID.
ReadLayer(file, YKR_ID) ==
    IF file = "shp"
    THEN IF YKR_ID \in DOMAIN shpFiles
         THEN [exc |-> "", data |-> shpFiles[YKR_ID]]
         ELSE [exc |-> "DriverError", data |-> None]
    ELSE IF file = "gpkg"
    THEN IF YKR_ID \in DOMAIN gpkg
         THEN [exc |-> "", data |-> gpkg[YKR_ID]]
         ELSE [exc |-> "DriverError", data |-> None]
    ELSE [exc |-> "UnboundLocalError", data |-> None]

\* frame[cols]
Project(frame, cols) ==
    [cols |-> cols,
     rows |-> [i \in 1..Len(frame.rows) |-> [c \in cols |-> frame.rows[i][c]]]]

(* ------------------------------ compare ------------------------------- *)

\* data.loc[(data[list[0]] >= 0) & (data[list[1]] >= 0)]
CompareSelect(data, list) ==
    [cols |-> data.cols,
     rows |-> SelectSeq(data.rows, LAMBDA r : r[list[1]] >= 0 /\ r[list[2]] >= 0)]

\* selection['diff'] = selection[list[0]] - selection[list[1]]
WithDiff(frame, list) ==
    [cols |-> frame.cols \cup {"diff"},
     rows |-> [i \in 1..Len(frame.rows) |->
                [c \in frame.cols \cup {"diff"} |->
                   IF c = "diff" THEN frame.rows[i][list[1]] - frame.rows[i][list[2]]
                   ELSE frame.rows[i][c]]]]

\* The local `selection` of compare when it ends.
CompareSelection(data, list) ==
    WithDiff(Project(CompareSelect(data, list), {list[1], list[2], "geometry"}), list)

\* The frame compare hands to to_file: `data`, the layer as it was read.
CompareWritten(data, list) == data

compare(file, YKR_ID, path, list) ==
    /\ pc = "joined"
    /\ creq' = [fn |-> "compare", file |-> file, YKR_ID |-> YKR_ID,
                modes |-> list, map |-> ""]
    /\ LET read == ReadLayer(file, YKR_ID)
       IN  IF read.exc # ""
           THEN /\ raised' = Raise("compare", read.exc)
                /\ pc' = "aborted"
                /\ UNCHANGED <<selection, cmpOut>>
           ELSE IF ~({list[1], list[2]} \subseteq read.data.cols)
           THEN /\ raised' = Raise("compare", "KeyError")
                /\ pc' = "aborted"
                /\ UNCHANGED <<selection, cmpOut>>
           ELSE /\ selection' = [kind |-> "frame",
                                 value |-> CompareSelection(read.data, list)]
                /\ cmpOut' = [kind |-> "file",
                              value |-> [name  |-> <<file, YKR_ID, list[1], list[2]>>,
                                         layer |-> CompareWritten(read.data, list)]]
                /\ raised' = NoError
                /\ pc' = "done"
    /\ UNCHANGED <<grid, gridLoads, req, ret, stdout, manifest, fmt, tables,
                   shpFiles, gpkg, writes, mapOut>>

Compare ==
    \E file \in Files, YKR_ID \in LayerNames, a \in ModeInputs, b \in ModeInputs :
        /\ a # b
        /\ compare(file, YKR_ID, "out", <<a, b>>)

(* ----------------------------- visualiser ----------------------------- *)

\* int(YKR_ID): the text without the blanks around it must be digits.
IsInt(text) ==
    LET body == {i \in 1..Len(text) : text[i] # " "}
    IN  /\ body # {}
        /\ \A i \in 1..Len(text) :
              \/ \E d \in 1..10 : text[i] = DigitChars[d]
              \/ text[i] = " " /\ (\A j \in body : j < i) 
              \/ text[i] = " " /\ (\A j \in body : j > i)

RECURSIVE IntOf(_)
IntOf(text) ==
    IF text = <<>> THEN 0
    ELSE LET c == text[Len(text)]
             rest == SubSeq(text, 1, Len(text) - 1)
         IN  IF c = " " THEN IntOf(rest)
             ELSE 10 * IntOf(rest) + ((CHOOSE d \in 1..10 : DigitChars[d] = c) - 1)

\* 'Public transport ' if mode == 'pt_m_t' else 'Car ' if mode == 'car_sl_t' ...
Title(mode) ==
    IF mode = "pt_m_t" THEN "Public transport "
    ELSE IF mode = "car_sl_t" THEN "Car "
    ELSE IF mode = "walk_t" THEN "Walking "
    ELSE IF mode = "bike_f_t" THEN "Biking "
    ELSE "Please enter a correct value for mode"

\* The modes the code knows: those it has a title for.
ModeVocabulary == {"pt_m_t", "car_sl_t", "walk_t", "bike_f_t"}

\* data.loc[data[mode] >= 0] then selection[[mode, 'geometry']]
VisualSelection(data, mode) ==
    Project([cols |-> data.cols,
             rows |-> SelectSeq(data.rows, LAMBDA r : r[mode] >= 0)],
            {mode, "geometry"})

\* The index labels of the rows kept by data.loc[data[mode] >= 0]: read_file
\* numbers the rows of the layer from 0, and the filter keeps the labels.
KeptIndex(data, mode) ==
    SelectSeq([i \in 1..Len(data.rows) |-> i - 1],
              LAMBDA i : data.rows[i + 1][mode] >= 0)

\* epsg=4326
WGS84 == 4326

\* A geometry re-projected by to_crs(epsg=...).
ToCrs(geometry, epsg) == Append(geometry, epsg)

\* selection = selection.to_crs(epsg=4326);
\* selection['geoid'] = selection.index.astype(str)
InteractiveSelection(data, mode) ==
    LET base == VisualSelection(data, mode)
        kept == KeptIndex(data, mode)
        cols == base.cols \cup {"geoid"}
    IN  [cols |-> cols,
         rows |-> [k \in 1..Len(base.rows) |->
                    [c \in cols |->
                       IF c = "geoid" THEN Str(kept[k])
                       ELSE IF c = "geometry" THEN ToCrs(base.rows[k][c], WGS84)
                       ELSE base.rows[k][c]]]]

\* The local `selection` when a visualiser call that got past line 170 ends:
\* the interactive branch replaces and extends it, the others leave it.
FinalSelection(data, mode, map) ==
    IF map = "interactive" THEN InteractiveSelection(data, mode)
    ELSE VisualSelection(data, mode)

\* data_grid.loc[data_grid['YKR_ID'] == int(YKR_ID)]
Position(data_grid, id) == SelectSeq(data_grid.rows, LAMBDA r : r.YKR_ID = id)

\* What marks the cell on the map: position.centroid on the static map,
\* position.to_crs(epsg=4326).centroid on the interactive one.
Marker(position, map) ==
    IF map = "interactive"
    THEN [i \in 1..Len(position) |->
            [position[i] EXCEPT !.geometry = ToCrs(@, WGS84)]]
    ELSE position

visualiser(file, path, YKR_ID, mode, output, map) ==
    /\ pc = "joined"
    /\ creq' = [fn |-> "visualiser", file |-> file, YKR_ID |-> YKR_ID,
                modes |-> <<mode>>, map |-> map]
    /\ LET read == ReadLayer(file, YKR_ID)
       IN  IF read.exc # ""
           THEN /\ raised' = Raise("visualiser", read.exc)
                /\ pc' = "aborted"
                /\ UNCHANGED <<selection, gridLoads, mapOut>>
           ELSE IF mode \notin read.data.cols
           THEN /\ raised' = Raise("visualiser", "KeyError")
                /\ pc' = "aborted"
                /\ UNCHANGED <<selection, gridLoads, mapOut>>
           ELSE /\ gridLoads' = gridLoads + 1
                /\ IF ~IsInt(YKR_ID)
                   THEN /\ selection' = [kind |-> "frame",
                                         value |-> VisualSelection(read.data, mode)]
                        /\ raised' = Raise("visualiser", "ValueError")
                        /\ pc' = "aborted"
                        /\ UNCHANGED mapOut
                   ELSE LET position == Position(ReadGrid, IntOf(YKR_ID))
                            final == FinalSelection(read.data, mode, map)
                            art == [name   |-> <<output, YKR_ID, map>>,
                                    title  |-> Title(mode),
                                    column |-> mode,
                                    rows   |-> final.rows,
                                    marker |-> Marker(position, map)]
                        IN  /\ selection' = [kind |-> "frame", value |-> final]
                            /\ mapOut' = IF map \in {"static", "interactive"}
                                         THEN [kind |-> "file", value |-> art]
                                         ELSE mapOut
                            /\ raised' = NoError
                            /\ pc' = "done"
    /\ UNCHANGED <<grid, req, ret, stdout, manifest, fmt, tables, shpFiles, gpkg,
                   writes, cmpOut>>

\* Drawing and saving the map is left to matplotlib and folium and taken to
\* succeed.
Visualiser ==
    \E file \in Files, YKR_ID \in LayerNames, mode \in ModeInputs, map \in Maps :
        visualiser(file, "out", YKR_ID, mode, "maps", map)

Init ==
    /\ pc = "start"
    /\ grid \in Catalogs
    /\ gridLoads = 0
    /\ req = [ids |-> <<>>, folder_path |-> "", output |-> ""]
    /\ ret = None
    /\ raised = NoError
    /\ stdout = <<>>
    /\ manifest = None
    /\ fmt = ""
    /\ tables = <<>>
    /\ shpFiles = <<>>
    /\ gpkg = <<>>
    /\ writes = <<>>
    /\ creq = [fn |-> "", file |-> "", YKR_ID |-> <<>>, modes |-> <<>>, map |-> ""]
    /\ selection = None
    /\ cmpOut = None
    /\ mapOut = None

\* The functions feed one another through their results and files: the list
\* filefinder returns goes to tablejoiner, the layers tablejoiner writes are
\* read by compare and visualiser.  An exception ends the run.
Next == Filefinder \/ Tablejoiner \/ Compare \/ Visualiser

Spec == Init /\ [][Next]_vars

(* ------------------------------ properties ---------------------------- *)

InGrid(id) == \E i \in 1..Len(grid) : grid[i].YKR_ID = id
NotInGrid(id) == ~InGrid(id)

\* filefinder has just ended on a non-empty list, by returning or by raising.
FinderReturned == pc # "start" /\ fmt = "" /\ req.ids # <<>>

\* filefinder has just ended on an empty list.
FinderEndedOnEmpty == req.ids = <<>> /\ (pc = "resolved" \/ raised.fn = "filefinder")

ResolvedIds == SelectSeq(req.ids, InGrid)
UnresolvedIds == SelectSeq(req.ids, NotInGrid)

\* Where the paths filefinder built can be seen: its return value or file_paths.txt.
Built == IF req.output = "list" THEN ret
         ELSE IF req.output = "text" THEN manifest ELSE None

\* C1: filefinder returns a pair (resolved, unresolved) that partitions the
\* input: the resolved part holds one location per identifier of the grid in
\* input order, the unresolved part the identifiers not in the grid in input
\* order, and the two lengths add up to the length of the input.
C1_ReturnsPartition ==
    FinderReturned =>
        /\ ret.kind = "pair"
        /\ Len(ret.value) = 2
        /\ Len(ret.value[1]) + Len(ret.value[2]) = Len(req.ids)
        /\ ret.value[1] = [i \in 1..Len(ResolvedIds) |->
                             FilePath(req.folder_path, ResolvedIds[i])]
        /\ ret.value[2] = UnresolvedIds


\* C4: an identifier that is not in the grid is printed as missing, filefinder
\* does not raise, and every later identifier that is in the grid is still
\* processed: its progress line is printed and its path is in the result.
C4_MissDoesNotStop ==
    FinderReturned =>
        /\ raised = NoError
        /\ pc = "resolved"
        /\ \A i \in 1..Len(req.ids) :
              NotInGrid(req.ids[i]) =>
                /\ <<"Missing", req.ids[i]>> \in Range(stdout)
                /\ \A j \in (i + 1)..Len(req.ids) :
                      InGrid(req.ids[j]) =>
                        /\ <<"Processing", req.ids[j], j, Len(req.ids)>> \in Range(stdout)
                        /\ req.output \in {"list", "text"} =>
                              FilePath(req.folder_path, req.ids[j]) \in Range(Built.value)

C4_Witness ==
    /\ FinderReturned
    /\ req.output = "list"
    /\ Len(req.ids) = 2
    /\ NotInGrid(req.ids[1])
    /\ InGrid(req.ids[2])
    /\ ret.value = <<FilePath(req.folder_path, req.ids[2])>>

\* C8: filefinder called with an empty list ends with the assertion error
\* before anything else: the grid is not read, nothing is printed, no
\* file_paths.txt is written and nothing is returned.
C8_EmptyFailsFast ==
    FinderEndedOnEmpty =>
        /\ raised = Raise("filefinder", "AssertionError")
        /\ pc = "aborted"
        /\ gridLoads = 0
        /\ stdout = <<>>
        /\ manifest.kind = "None"
        /\ ret.kind = "None"

C8_Witness ==
    /\ FinderEndedOnEmpty
    /\ pc = "aborted"
    /\ req.output = "text"
    /\ raised.exc = "AssertionError"

(* --- tablejoiner --- *)

GridIds == {grid[i].YKR_ID : i \in 1..Len(grid)}

\* tablejoiner has just ended on a non-empty list, by returning or by raising.
JoinEnded == fmt # "" /\ creq.fn = "" /\ ret.value # <<>>
JoinReturned == JoinEnded /\ pc = "joined"

\* The path whose layer a store holds under `name`: that of the last write.
LastWrite(store, name) ==
    LET S == {i \in 1..Len(writes) : writes[i].store = store /\ writes[i].name = name}
    IN  writes[CHOOSE i \in S : \A j \in S : j <= i]

JoinIsInner(store, layers) ==
    \A name \in DOMAIN layers :
        LET layer  == layers[name]
            table  == tables[LastWrite(store, name).path].rows
            fromId == {table[k].from_id : k \in 1..Len(table)}
            ids    == {layer.rows[k].YKR_ID : k \in 1..Len(layer.rows)}
        IN  /\ ids = GridIds \cap fromId
            /\ "geometry" \in layer.cols
            /\ \A k \in 1..Len(layer.rows) :
                  \E g \in 1..Len(grid) :
                      /\ grid[g].YKR_ID = layer.rows[k].YKR_ID
                      /\ grid[g].geometry = layer.rows[k].geometry
            /\ (GridIds \cap fromId # {}) => layer.rows # <<>>

\* C5: the identifiers of every joined layer are exactly those found both in
\* the grid and in the table, every joined row carries the geometry the grid
\* has for its identifier, and the layer has a row whenever grid and table
\* share an identifier.
C5_InnerJoin ==
    JoinEnded => JoinIsInner("shp", shpFiles) /\ JoinIsInner("gpk", gpkg)

C5_Witness ==
    \E name \in DOMAIN gpkg :
        /\ gpkg[name].rows # <<>>
        /\ Len(gpkg[name].rows) < Len(grid)
        /\ Len(gpkg[name].rows) < Len(tables[LastWrite("gpk", name).path].rows)

\* C6: an error on one location does not end the batch: every location of
\* the list whose file is a good table still gets its layer written.
C6_ErrorDoesNotAbort ==
    (JoinEnded /\ fmt \in {"shp", "gpk"}) =>
        \A i \in 1..Len(ret.value) :
            tables[ret.value[i]].kind = "table" =>
                \E k \in 1..Len(writes) : writes[k].path = ret.value[i]

\* The number of decimal digits of the identifier a path was built from.
IdDigits(path) == Len(Stem(path)) - Len(Stem(FilePath("", 0))) + 1

NamesDiffer(maxDigits) ==
    \A i \in 1..Len(writes) : \A j \in (i + 1)..Len(writes) :
        ( /\ writes[i].path # writes[j].path
          /\ IdDigits(writes[i].path) <= maxDigits
          /\ IdDigits(writes[j].path) <= maxDigits )
        => writes[i].name # writes[j].name

OnePerLocation ==
    /\ Len(writes) = Len(ret.value)
    /\ \A i \in 1..Len(writes) :
          /\ writes[i].path = ret.value[i]
          /\ writes[i].name = LayerName(ret.value[i])

\* Identifiers of one to eight digits, to try the naming rule on.
ProbeIds == {7, 42, 300, 1234, 56789, 579707, 5797076, 5797077, 6016699, 15797076}

\* C7 as stated: a batch writes one layer per location, and two locations of
\* distinct identifiers never get the same name.
C7_UniqueNames ==
    (JoinReturned /\ fmt \in {"shp", "gpk"}) =>
        OnePerLocation /\ NamesDiffer(SuffixLen + 1)

\* C7 amended: a batch writes one layer per location, named by the last seven
\* characters of the file-name stem; two locations of distinct identifiers of
\* at most seven digits each never get the same name.  (Longer identifiers
\* can: 5797076 and 15797076 both give 5797076.)
C7_UniqueNamesUpTo7Digits ==
    (JoinReturned /\ fmt \in {"shp", "gpk"}) =>
        /\ OnePerLocation
        /\ NamesDiffer(SuffixLen)
        /\ \A a \in ProbeIds, b \in ProbeIds :
              (a # b /\ Len(Str(a)) <= SuffixLen /\ Len(Str(b)) <= SuffixLen)
              => LayerName(FilePath("data", a)) # LayerName(FilePath("data", b))

C7_Witness ==
    /\ JoinReturned
    /\ fmt = "gpk"
    /\ Len(writes) = 2
    /\ writes[1].path # writes[2].path
    /\ IdDigits(writes[1].path) < SuffixLen
    /\ IdDigits(writes[2].path) = SuffixLen
    /\ DOMAIN gpkg = {writes[1].name, writes[2].name}

\* C10: one batch join reads the grid at most once, however many locations
\* it has (filefinder has read it once before).
C10_GridLoadedOnce == JoinReturned => gridLoads - 1 <= 1

(* --- compare and visualiser --- *)

CompareDone == creq.fn = "compare" /\ pc = "done"

\* C2: the layer compare persists holds no row in which either of the two
\* modes is negative.
C2_NoSentinelRows ==
    CompareDone =>
        \A k \in 1..Len(cmpOut.value.layer.rows) :
            /\ cmpOut.value.layer.rows[k][creq.modes[1]] >= 0
            /\ cmpOut.value.layer.rows[k][creq.modes[2]] >= 0

\* C3: every row of the layer compare persists carries diff, the first mode
\* minus the second.
C3_DiffColumn ==
    CompareDone =>
        /\ "diff" \in cmpOut.value.layer.cols
        /\ \A k \in 1..Len(cmpOut.value.layer.rows) :
              cmpOut.value.layer.rows[k]["diff"] =
                cmpOut.value.layer.rows[k][creq.modes[1]]
                  - cmpOut.value.layer.rows[k][creq.modes[2]]

\* C9: a mode name outside the vocabulary is rejected before compare or
\* visualiser does anything: the call raises, selects nothing, writes no
\* layer and saves no map.
C9_UnknownModeRejected ==
    (creq.fn # "" /\ \E m \in Range(creq.modes) : m \notin ModeVocabulary) =>
        /\ raised.fn = creq.fn
        /\ selection.kind = "None"
        /\ cmpOut.kind = "None"
        /\ mapOut.kind = "None"

====
